---- MODULE Spec2Model ----
(***************************************************************************)
(* boxen-rs: display width of text (string-width) and alignment of         *)
(* multi-segment text by left padding (ansi-align).                        *)
(*                                                                         *)
(* A Text is a sequence of characters.  A character is named by a string:  *)
(*   "LF"  U+000A line feed        (control)                               *)
(*   "CR"  U+000D carriage return  (control)                               *)
(*   "ESC" U+001B escape           (control, introduces escape sequences)  *)
(*   "["   U+005B                  (narrow; CSI introducer after ESC)      *)
(*   "m"   U+006D                  (narrow; a final byte of a sequence)    *)
(*   "SP"  U+0020 space            (narrow; an intermediate byte)          *)
(*   "W"   U+53E4 a CJK ideograph  (wide)                                  *)
(*   "ZW"  U+0301 combining acute  (zero width, not a control)             *)
(***************************************************************************)
EXTENDS Integers, Sequences, FiniteSets, TLC

VARIABLES text, cut, opts, wrap, pc, result, result2, widths

vars == <<text, cut, opts, wrap, pc, result, result2, widths>>

\* ------------------------------------------------------------------ bounds
MaxLen == 3

LF == "LF"
CR == "CR"
ESC == "ESC"
SP == "SP"

\* characters of the texts given to ansi_align
Chars == {LF, ESC, "[", "m", SP, "W"}
\* characters of the texts given to string_width and widest_line
WChars == Chars \cup {CR}

RECURSIVE SeqsUpTo(_, _)
SeqsUpTo(S, n) ==
    IF n = 0 THEN {<<>>}
    ELSE LET shorter == SeqsUpTo(S, n - 1)
         IN  shorter \cup {Append(s, c) : s \in {t \in shorter : Len(t) = n - 1}, c \in S}

\* "hi\nhello", the text of test_center_alignment and test_right_alignment,
\* written with the narrow letter of the alphabet
HiHello == <<"m", "m", LF, "m", "m", "m", "m", "m">>

Texts == SeqsUpTo(Chars, MaxLen) \cup {HiHello}
WTexts == SeqsUpTo(WChars, MaxLen)

\* ------------------------------------------------------- sequence helpers
Take(s, n) == SubSeq(s, 1, n)
Drop(s, n) == SubSeq(s, n + 1, Len(s))
StartsWith(s, p) == Len(p) <= Len(s) /\ Take(s, Len(p)) = p

\* String::repeat: n copies of the one-character string c
Repeat(c, n) == [i \in 1..n |-> c]

RECURSIVE Sum(_)
Sum(s) == IF s = <<>> THEN 0 ELSE Head(s) + Sum(Tail(s))

\* Iterator::max().unwrap_or(0)
RECURSIVE MaxOr0(_)
MaxOr0(s) ==
    IF s = <<>> THEN 0
    ELSE LET m == MaxOr0(Tail(s))
         IN  IF Len(s) = 1 \/ Head(s) >= m THEN Head(s) ELSE m

\* ---------------------------------------------------------- string-width
\* char::is_control: the Unicode category Cc
is_control(c) == c \in {LF, CR, ESC}

\* unicode_width::UnicodeWidthChar::width(c).unwrap_or(0)
unicode_width(c) ==
    CASE c = "W" -> 2
      [] c \in {"[", "m", SP} -> 1
      [] OTHER -> 0

\* strip_ansi_escapes::strip: the text is fed to the escape-sequence parser
\* of the vte crate, and only the characters the parser prints, and the line
\* feeds it executes, are written out.  StripStep is one character of that
\* parser: the state after it and what is written.
\*   ESC            from any state: to Escape
\*   LF, CR         any state: executed, the state kept; LF alone is written
\*   Ground         every other character is printed
\*   outside Ground a character above U+007F is ignored
\*   Escape         "[" to CsiEntry; SP (intermediate) to EscapeIntermediate;
\*                  "m" (final) dispatches, to Ground
\*   CsiEntry       SP to CsiIntermediate; "[" and "m" (final) dispatch
\*   EscapeIntermediate, CsiIntermediate
\*                  SP collected; "[" and "m" (final) dispatch
\* A sequence that never reaches its final byte is never written out.
StripStep(st, c) ==
    IF c = ESC THEN [st |-> "Escape", out |-> <<>>]
    ELSE IF c = LF THEN [st |-> st, out |-> <<LF>>]
    ELSE IF c = CR THEN [st |-> st, out |-> <<>>]
    ELSE IF st = "Ground" THEN [st |-> "Ground", out |-> <<c>>]
    ELSE IF c \in {"W", "ZW"} THEN [st |-> st, out |-> <<>>]
    ELSE IF c = SP
         THEN [st |-> IF st = "Escape" THEN "EscapeIntermediate"
                      ELSE IF st = "CsiEntry" THEN "CsiIntermediate"
                      ELSE st,
               out |-> <<>>]
    ELSE IF c = "[" /\ st = "Escape" THEN [st |-> "CsiEntry", out |-> <<>>]
    ELSE [st |-> "Ground", out |-> <<>>]

RECURSIVE StripFrom(_, _)
StripFrom(st, s) ==
    IF s = <<>> THEN <<>>
    ELSE LET r == StripStep(st, Head(s))
         IN  r.out \o StripFrom(r.st, Tail(s))

\* the parser's state after the whole of s
RECURSIVE StateAfter(_, _)
StateAfter(st, s) ==
    IF s = <<>> THEN st ELSE StateAfter(StripStep(st, Head(s)).st, Tail(s))

strip(s) == StripFrom("Ground", s)

\* string_width without the call of strip
string_width_unstripped(s) ==
    Sum([i \in 1..Len(s) |-> IF is_control(s[i]) THEN 0 ELSE unicode_width(s[i])])

\* what strip writes is the UTF-8 of the characters it kept, so from_utf8
\* never fails and unwrap_or("") never yields its default
string_width(s) ==
    LET clean_str == strip(s)
    IN  Sum([i \in 1..Len(clean_str) |->
                IF is_control(clean_str[i]) THEN 0 ELSE unicode_width(clean_str[i])])

\* str::lines: the text up to each line feed, without the line feed and
\* without a carriage return right before it; what follows the last line
\* feed is a line when it is not empty
RECURSIVE lines(_)
lines(s) ==
    IF s = <<>> THEN <<>>
    ELSE IF \E i \in 1..Len(s) : s[i] = LF
         THEN LET i == CHOOSE k \in 1..Len(s) :
                           s[k] = LF /\ \A j \in 1..(k - 1) : s[j] # LF
                  l == Take(s, i - 1)
                  line == IF l # <<>> /\ l[Len(l)] = CR THEN Take(l, Len(l) - 1) ELSE l
              IN  <<line>> \o lines(Drop(s, i))
         ELSE <<s>>

\* widest_line without the call of lines
widest_line_unsplit(s) == string_width(s)

widest_line(s) ==
    LET ls == lines(s)
    IN  MaxOr0([i \in 1..Len(ls) |-> string_width(ls[i])])

\* ------------------------------------------------------------ ansi-align
\* Option::None
None == [none |-> TRUE]

\* impl Default for AlignOptions
DefaultOptions == [align |-> "Center", split |-> <<LF>>, pad |-> SP]

\* AlignOptions::new(align)
new(align) == [DefaultOptions EXCEPT !.align = align]

\* Option::unwrap_or_default
unwrap_or_default(o) == IF o = None THEN DefaultOptions ELSE o

\* the first index at which d occurs in s, 0 when it does not
FirstMatch(s, d) ==
    LET at == {i \in 1..(Len(s) - Len(d) + 1) : SubSeq(s, i, i + Len(d) - 1) = d}
    IN  IF at = {} THEN 0 ELSE CHOOSE i \in at : \A j \in at : i <= j

\* str::split with a string pattern: the pieces between the leftmost
\* non-overlapping occurrences of d; the empty pattern matches at every
\* character boundary, the two ends included
RECURSIVE split(_, _)
split(s, d) ==
    IF d = <<>>
    THEN <<<<>>>> \o [i \in 1..Len(s) |-> <<s[i]>>] \o <<<<>>>>
    ELSE LET i == FirstMatch(s, d)
         IN  IF i = 0 THEN <<s>>
             ELSE <<Take(s, i - 1)>> \o split(Drop(s, i + Len(d) - 1), d)

\* [String]::join
RECURSIVE join(_, _)
join(ls, d) ==
    IF ls = <<>> THEN <<>>
    ELSE IF Len(ls) = 1 THEN ls[1]
    ELSE ls[1] \o d \o join(Tail(ls), d)

\* each segment with its display width
line_data(txt, o) ==
    LET ls == split(txt, o.split)
    IN  [i \in 1..Len(ls) |-> [line_str |-> ls[i], width |-> string_width(ls[i])]]

\* max_width as the width of the first segment
max_width_first(data) == IF data = <<>> THEN 0 ELSE data[1].width

max_width(data) == MaxOr0([i \in 1..Len(data) |-> data[i].width])

\* padding_needed with the arms of Center and Right exchanged
padding_needed_swapped(align, maxw, width) ==
    CASE align = "Left" -> 0
      [] align = "Center" -> maxw - width
      [] align = "Right" -> (maxw - width) \div 2

\* padding_needed with the half of Center rounded up
padding_needed_ceil(align, maxw, width) ==
    CASE align = "Left" -> 0
      [] align = "Center" -> (maxw - width + 1) \div 2
      [] align = "Right" -> maxw - width

padding_needed(align, maxw, width) ==
    CASE align = "Left" -> 0
      [] align = "Center" -> (maxw - width) \div 2
      [] align = "Right" -> maxw - width

\* pad_line with the padding after the segment
pad_line_after(pad, n, line_str) == line_str \o Repeat(pad, n)

pad_line(pad, n, line_str) == Repeat(pad, n) \o line_str

aligned_lines(txt, o) ==
    LET data == line_data(txt, o)
        maxw == max_width(data)
    IN  [i \in 1..Len(data) |->
            pad_line(o.pad, padding_needed(o.align, maxw, data[i].width), data[i].line_str)]

\* the unsigned subtraction max_width - width of a segment wider than
\* max_width: a panic in a debug build, a wrapped count of pad characters
\* that no String can hold in a release build
sub_overflows(txt, options) ==
    LET o == unwrap_or_default(options)
        data == line_data(txt, o)
    IN  /\ txt # <<>>
        /\ o.align # "Left"
        /\ \E i \in 1..Len(data) : data[i].width > max_width(data)

\* ansi_align without the short cut of Left, Left padded as Right is
ansi_align_left_padded(txt, options) ==
    IF txt = <<>> THEN txt
    ELSE LET o == unwrap_or_default(options)
             a == IF o.align = "Left" THEN [o EXCEPT !.align = "Right"] ELSE o
         IN  join(aligned_lines(txt, a), o.split)

ansi_align(txt, options) ==
    IF txt = <<>> THEN txt
    ELSE LET o == unwrap_or_default(options)
         IN  IF o.align = "Left" THEN txt
             ELSE join(aligned_lines(txt, o), o.split)

left(txt) == ansi_align(txt, new("Left"))
center(txt) == ansi_align(txt, new("Center"))
right(txt) == ansi_align(txt, new("Right"))

\* ------------------------------------------------------ the alignment runs
Alignments == {"Left", "Center", "Right"}
Splits == {<<LF>>, <<>>, <<"m">>, <<"[", "m">>}
Pads == {SP, "W", "m", "ZW", ESC}
Options == [align : Alignments, split : Splits, pad : Pads] \cup {None}

Init ==
    /\ text \in Texts
    /\ cut = 0
    /\ opts \in Options
    /\ wrap = <<>>
    /\ pc = "start"
    /\ result = <<>>
    /\ result2 = <<>>
    /\ widths = <<>>

\* a call ansi_align(text, opts)
Call ==
    /\ pc = "start"
    /\ IF sub_overflows(text, opts)
       THEN pc' = "panicked" /\ result' = result
       ELSE pc' = "returned" /\ result' = ansi_align(text, opts)
    /\ UNCHANGED <<text, cut, opts, wrap, result2, widths>>

\* a second call, on the result of the first, with the same options
CallAgain ==
    /\ pc = "returned"
    /\ IF sub_overflows(result, opts)
       THEN pc' = "panicked" /\ result2' = result2
       ELSE pc' = "returned2" /\ result2' = ansi_align(result, opts)
    /\ UNCHANGED <<text, cut, opts, wrap, result, widths>>

Next == Call \/ CallAgain

Spec == Init /\ [][Next]_vars

\* ---------------------------------------------------------- the width runs
\* "\u{1B}[m", a CSI sequence (select graphic rendition) with no parameters
SGR == <<ESC, "[", "m">>

InitWidth ==
    /\ text \in WTexts
    /\ cut \in 0..Len(text)
    /\ opts = None
    /\ wrap = <<>>
    /\ pc = "start"
    /\ result = <<>>
    /\ result2 = <<>>
    /\ widths = <<>>

\* string_width of the text before the cut, of the text after it, and of both
MeasureParts ==
    /\ pc = "start"
    /\ pc' = "measured"
    /\ widths' = <<string_width(Take(text, cut)), string_width(Drop(text, cut)),
                   string_width(text)>>
    /\ UNCHANGED <<text, cut, opts, wrap, result, result2>>

\* string_width of the text, and of the text with SGR sequences added before
\* it, at the cut and after it (wrap records which)
MeasureWrapped ==
    /\ pc = "start"
    /\ \E pre, mid, post \in {<<>>, SGR} :
          /\ wrap' = <<pre, mid, post>>
          /\ result' = pre \o Take(text, cut) \o mid \o Drop(text, cut) \o post
          /\ widths' = <<string_width(text), string_width(result')>>
    /\ pc' = "wrapped"
    /\ UNCHANGED <<text, cut, opts, result2>>

\* widest_line of the text
MeasureLines ==
    /\ pc = "start"
    /\ pc' = "widest"
    /\ widths' = <<widest_line(text)>>
    /\ UNCHANGED <<text, cut, opts, wrap, result, result2>>

NextWidth == MeasureParts \/ MeasureWrapped \/ MeasureLines

SpecWidth == InitWidth /\ [][NextWidth]_vars

\* ------------------------------------------------- what the claims speak of
\* the options in effect, the input segments, their widths and the widest
O == unwrap_or_default(opts)
Segs == split(text, O.split)
W(i) == string_width(Segs[i])
MaxW == CHOOSE m \in {W(i) : i \in 1..Len(Segs)} : \A i \in 1..Len(Segs) : W(i) <= m
Padded == O.align \in {"Center", "Right"}

\* the characters of a text
Range(s) == {s[i] : i \in 1..Len(s)}

\* the number of copies of p that s begins with
LeadingCount(s, p) ==
    CHOOSE k \in 0..Len(s) :
        /\ \A i \in 1..k : s[i] = p
        /\ k = Len(s) \/ s[k + 1] # p

\* the delimiter is not empty, and the pad character takes one column and
\* does not occur in the delimiter
PlainPad ==
    /\ O.split # <<>>
    /\ string_width(<<O.pad>>) = 1
    /\ O.pad \notin Range(O.split)

\* out is the segments, in order, each after some copies of p, with d
\* between consecutive ones and nothing else
RECURSIVE PaddedJoin(_, _, _, _)
PaddedJoin(out, segs, p, d) ==
    \E k \in 0..Len(out) :
        /\ Take(out, k) = Repeat(p, k)
        /\ StartsWith(Drop(out, k), segs[1])
        /\ LET rest == Drop(out, k + Len(segs[1]))
           IN  IF Len(segs) = 1 THEN rest = <<>>
               ELSE /\ StartsWith(rest, d)
                    /\ PaddedJoin(Drop(rest, Len(d)), Tail(segs), p, d)

\* C1 as claimed: aligning the result of a Center or Right alignment again,
\* with the same options, returns it unchanged.
C1_Idempotent ==
    pc = "returned2" /\ Padded => result2 = result

\* C1 as amended: with a non-empty delimiter and a pad character one column
\* wide that does not occur in the delimiter, a second Right alignment
\* changes nothing, and a second Center alignment changes nothing exactly
\* when no input segment is more than 2 columns narrower than the widest.
C1_IdempotentPlainPad ==
    pc = "returned2" /\ PlainPad =>
        /\ O.align = "Right" => result2 = result
        /\ O.align = "Center" =>
              (result2 = result <=> \A i \in 1..Len(Segs) : MaxW - W(i) <= 2)

C1_Witness ==
    /\ pc = "returned2"
    /\ PlainPad
    /\ O.align = "Right"
    /\ Len(Segs) >= 2
    /\ result # text
    /\ result2 = result

\* C2 as claimed: after a Right alignment of a non-empty text, each segment
\* of the result begins with exactly max_width - width pad characters, width
\* being that of the corresponding input segment.
C2_LeadingPadCount ==
    pc = "returned" /\ O.align = "Right" /\ text # <<>> =>
        LET outs == split(result, O.split)
        IN  /\ Len(outs) = Len(Segs)
            /\ \A i \in 1..Len(Segs) : LeadingCount(outs[i], O.pad) = MaxW - W(i)

\* C2 as amended: after a Right alignment of a non-empty text, the result is
\* the input segments, each with exactly max_width - width pad characters
\* put before it, joined by the delimiter; that is the number of pad
\* characters a segment of the result begins with when the delimiter is not
\* empty and does not hold the pad character and no input segment begins
\* with the pad character.
C2_PrependedPadCount ==
    pc = "returned" /\ O.align = "Right" /\ text # <<>> =>
        /\ result = join([i \in 1..Len(Segs) |->
                             Repeat(O.pad, MaxW - W(i)) \o Segs[i]], O.split)
        /\ ( /\ O.split # <<>>
             /\ O.pad \notin Range(O.split)
             /\ \A i \in 1..Len(Segs) : ~StartsWith(Segs[i], <<O.pad>>) )
           => LET outs == split(result, O.split)
              IN  /\ Len(outs) = Len(Segs)
                  /\ \A i \in 1..Len(Segs) :
                        LeadingCount(outs[i], O.pad) = MaxW - W(i)

C2_Witness ==
    /\ pc = "returned"
    /\ O.align = "Right"
    /\ O.split # <<>>
    /\ O.pad \notin Range(O.split)
    /\ \E i \in 1..Len(Segs) : MaxW - W(i) >= 2
    /\ \E i \in 1..Len(Segs) : ESC \in Range(Segs[i])
    /\ \A i \in 1..Len(Segs) : ~StartsWith(Segs[i], <<O.pad>>)

\* C3 as claimed: after a Right alignment, with any delimiter and any pad
\* character, every segment of the result is as wide as the widest input
\* segment.
C3_AllSegmentsMaxWidth ==
    pc = "returned" /\ O.align = "Right" =>
        LET outs == split(result, O.split)
        IN  \A i \in 1..Len(outs) : string_width(outs[i]) = MaxW

\* C3 as amended: after a Right alignment with a non-empty delimiter and a
\* pad character one column wide that does not occur in the delimiter, every
\* segment of the result is as wide as the widest input segment.
C3_PlainPadMaxWidth ==
    pc = "returned" /\ O.align = "Right" /\ PlainPad =>
        LET outs == split(result, O.split)
        IN  \A i \in 1..Len(outs) : string_width(outs[i]) = MaxW

C3_Witness ==
    /\ pc = "returned"
    /\ O.align = "Right"
    /\ PlainPad
    /\ Len(Segs) >= 2
    /\ \E i \in 1..Len(Segs) : W(i) < MaxW /\ ESC \in Range(Segs[i])
    /\ \E i \in 1..Len(Segs) : W(i) = 2

\* C4: a Left alignment returns the text given, whatever the delimiter and
\* the pad character; left(s) = s.
C4_LeftIdentity ==
    /\ pc = "returned" /\ O.align = "Left" => result = text
    /\ left(text) = text

C4_Witness ==
    /\ pc = "returned"
    /\ O.align = "Left"
    /\ O # new("Left")
    /\ \E i \in 1..Len(Segs) : W(i) < MaxW
    /\ result = text

\* C5: after a Center alignment of a non-empty text, each input segment of
\* width w has exactly (max_width - w) div 2 pad characters put before it
\* (a segment as wide as max_width none), and "hi\nhello" gives
\* " hi\nhello".
C5_CenterHalfPadding ==
    pc = "returned" /\ O.align = "Center" /\ text # <<>> =>
        /\ result = join([i \in 1..Len(Segs) |->
                             Repeat(O.pad, (MaxW - W(i)) \div 2) \o Segs[i]], O.split)
        /\ text = HiHello /\ O = DefaultOptions =>
              result = <<SP, "m", "m", LF, "m", "m", "m", "m", "m">>

C5_Witness ==
    /\ pc = "returned"
    /\ O.align = "Center"
    /\ \E i \in 1..Len(Segs) : MaxW - W(i) = 3
    /\ \E i \in 1..Len(Segs) : W(i) = MaxW /\ Segs[i] # <<>>
    /\ result # text

\* C6: after a Center or Right alignment the result is the input segments,
\* unchanged and in order, each after zero or more pad characters, with the
\* delimiter between consecutive ones and nothing else.
C6_OnlyLeftPadding ==
    pc = "returned" /\ Padded => PaddedJoin(result, Segs, O.pad, O.split)

C6_Witness ==
    /\ pc = "returned"
    /\ Padded
    /\ Len(Segs) >= 2
    /\ \E i \in 1..Len(Segs) : W(i) < MaxW /\ ESC \in Range(Segs[i])
    /\ result # text

\* C10: the subtraction max_width - width never underflows: no call panics,
\* and the padding of every segment is at least 0.
C10_NoUnderflow ==
    /\ pc # "panicked"
    /\ Padded /\ text # <<>> =>
          LET data == line_data(text, O)
          IN  \A i \in 1..Len(data) :
                 padding_needed(O.align, max_width(data), data[i].width) >= 0

C10_Witness ==
    /\ pc = "returned"
    /\ O.align = "Right"
    /\ O.split = <<>>
    /\ \E i \in 1..Len(Segs) : Segs[i] = <<>> /\ W(i) < MaxW
    /\ result # text

\* the parser is in the middle of an escape sequence after a, and b brings
\* that sequence to its final byte
Spans(a, b) ==
    /\ StateAfter("Ground", a) # "Ground"
    /\ \E j \in 1..Len(b) :
          /\ StateAfter(StateAfter("Ground", a), Take(b, j)) = "Ground"
          /\ \A i \in 1..(j - 1) :
                /\ b[i] # ESC
                /\ StateAfter(StateAfter("Ground", a), Take(b, i)) # "Ground"

\* C7 as claimed: a text with escape sequences added around it or between
\* its characters is as wide as the text.
C7_WrappedSameWidth ==
    pc = "wrapped" => widths[2] = widths[1]

\* C7 as amended: a text with escape sequences added before it, after it, or
\* between its characters where the text is not itself in the middle of an
\* escape sequence, is as wide as the text.
C7_WrappedOutsideSequences ==
    pc = "wrapped"
    /\ (wrap[2] = <<>> \/ StateAfter("Ground", Take(text, cut)) = "Ground")
    => widths[2] = widths[1]

C7_Witness ==
    /\ pc = "wrapped"
    /\ wrap = <<SGR, SGR, SGR>>
    /\ 0 < cut /\ cut < Len(text)
    /\ StateAfter("Ground", Take(text, cut)) = "Ground"
    /\ ESC \in Range(text)
    /\ widths[1] >= 2
    /\ widths[2] = widths[1]

\* C8: widest_line is the greatest string_width of the pieces of the text
\* between line feeds: 0 for the empty text and for a text of empty lines,
\* string_width of the text when it has one line, and at least the width of
\* every line.
C8_WidestLine ==
    pc = "widest" =>
        LET pieces == split(text, <<LF>>)
            ls == lines(text)
        IN  /\ \A i \in 1..Len(pieces) : string_width(pieces[i]) <= widths[1]
            /\ \E i \in 1..Len(pieces) : string_width(pieces[i]) = widths[1]
            /\ text = <<>> => widths[1] = 0
            /\ (\A i \in 1..Len(ls) : ls[i] = <<>>) => widths[1] = 0
            /\ Len(ls) = 1 => widths[1] = string_width(text)
            /\ \A i \in 1..Len(ls) : string_width(ls[i]) <= widths[1]

C8_Witness ==
    /\ pc = "widest"
    /\ Len(lines(text)) = 2
    /\ CR \in Range(text)
    /\ string_width(lines(text)[1]) > string_width(lines(text)[2])
    /\ widths[1] = 2

\* C9: the empty text has width 0, and the width of a followed by b is the
\* width of a plus the width of b when no escape sequence begins in a and
\* ends in b.
C9_Additive ==
    pc = "measured" =>
        /\ text = <<>> => widths[3] = 0
        /\ ~Spans(Take(text, cut), Drop(text, cut)) => widths[3] = widths[1] + widths[2]

====
